---- MODULE Spec2Model ----
(***************************************************************************)
(* Model of the blame viewer: the navigation controller (src/src/app.rs),  *)
(* the snapshot builder and commit cache (src/src/file_blame.rs) and the   *)
(* host loop that dispatches one command at a time (src/src/main.rs,       *)
(* src/src/handler.rs).  The version-control gateway (the git commands the *)
(* builder runs) is a fixed repository chosen in Init.                     *)
(***************************************************************************)
EXTENDS Integers, Sequences, FiniteSets, TLC

\* Longest blame output (lines of the file) at HEAD, and at its parent c2.
MaxLines == 3
MaxOldLines == 2

\* Width of usize in the model; only the wrap of `len - 1` at len = 0 and of
\* `i + 1` at usize::MAX depend on it.
UsizeBits == 4

VARIABLES
    running,          \* App.running
    selected,         \* App.state.selected(): Option<usize>
    file_path,        \* App.file_path
    commit_sha,       \* App.commit_sha, the ref being viewed
    file_blame,       \* App.file_blame: Option<FileBlame>
    commit_cache,     \* App.commit_cache: sha -> Commit
    commit_stack,     \* App.commit_stack: Vec<String>
    load_err,         \* App.load_err: Option<FileBlameError>
    panicked,         \* the process died on a panic (unwrap on None, checked overflow)
    requests,         \* gateway requests issued by the last operation, in order
    last_op,          \* the operation that produced this state
    overflow_checks,  \* build profile: TRUE panics on usize overflow, FALSE wraps
    git               \* the file system and repository the gateway answers from

vars == <<running, selected, file_path, commit_sha, file_blame, commit_cache,
          commit_stack, load_err, panicked, requests, last_op, overflow_checks, git>>

----------------------------------------------------------------------------
\* Option<T>: None is the empty sequence, Some(x) the one-element sequence.
None == <<>>
Some(x) == <<x>>
IsSome(o) == o # <<>>
Unwrap(o) == o[1]

\* usize arithmetic of the release profile (wrapping).
UsizeModulus == 2 ^ UsizeBits
UsizeMax == UsizeModulus - 1
WrappingSub(a, b) == (a - b + UsizeModulus) % UsizeModulus

----------------------------------------------------------------------------
\* The repository: commits c1 <- c2 <- c3, HEAD at c3.
Commits == {"c1", "c2", "c3"}
HeadRef == "HEAD"
FilePath == "src/lib.rs"

\* Commits reachable from c (c included); blame attributes lines to these only.
Ancestors(c) ==
    CASE c = "c1" -> {"c1"}
      [] c = "c2" -> {"c1", "c2"}
      [] c = "c3" -> {"c1", "c2", "c3"}

\* `%p` of git show: abbreviated parent hashes, space separated; empty for the
\* root commit.  A merge commit prints both parents in one string.
ParentField(g, c) ==
    CASE c = "c1" -> <<>>
      [] c = "c2" -> <<"c1">>
      [] c = "c3" -> IF g.merge THEN <<"c1 c2">> ELSE <<"c2">>

\* `%s` of git show: the subject, which may itself contain the delimiter.
Subject(c) ==
    CASE c = "c1" -> <<"initial">>
      [] c = "c2" -> <<"re", "-", "work">>
      [] c = "c3" -> <<"top">>

AuthorOf(c) == CASE c = "c1" -> "ann" [] c = "c2" -> "bob" [] c = "c3" -> "cy"
TimestampOf(c) == CASE c = "c1" -> "t1" [] c = "c2" -> "t2" [] c = "c3" -> "t3"

\* git rev-parse of a ref: the commit it names, or None for a string that is
\* no object name (such as the two hashes `%p` prints for a merge).
ResolveRef(ref) ==
    IF ref = HeadRef THEN Some("c3")
    ELSE IF ref \in Commits THEN Some(ref)
    ELSE None

\* One line of `git blame` output for line k of the file at commit c,
\* attributed to sha.  Root commits are printed with the boundary marker.
RawLine(c, k, sha) ==
    [matches |-> TRUE,
     commit |-> IF sha = "c1" THEN <<"^", sha>> ELSE <<sha>>,
     author |-> AuthorOf(sha), timestamp |-> TimestampOf(sha),
     line_number |-> k, contents |-> <<c, k>>]

\* What the gateway answers for the file at one commit.
AbsentAt == [exists |-> FALSE, status_ok |-> FALSE, lines |-> <<>>]
BlameFails == [exists |-> TRUE, status_ok |-> FALSE, lines |-> <<>>]
BlameGarbled(c) ==
    [exists |-> TRUE, status_ok |-> TRUE,
     lines |-> <<[RawLine(c, 1, c) EXCEPT !.matches = FALSE]>>]
BlameOk(c, shas) ==
    [exists |-> TRUE, status_ok |-> TRUE,
     lines |-> [k \in 1..Len(shas) |-> RawLine(c, k, shas[k])]]

SeqsUpTo(S, n) == UNION {[1..k -> S] : k \in 0..n}

LineBound(c) == IF c = "c3" THEN MaxLines ELSE MaxOldLines

\* At the root commit the file is absent or has one line; at c2 and c3 every
\* answer of the gateway is possible.
BlameOutputs(c) ==
    IF c = "c1"
    THEN {AbsentAt, BlameOk("c1", <<"c1">>)}
    ELSE {AbsentAt, BlameFails, BlameGarbled(c)}
            \cup {BlameOk(c, shas) : shas \in SeqsUpTo(Ancestors(c), LineBound(c))}

DefaultBlame(c) ==
    CASE c = "c1" -> BlameOk("c1", <<"c1">>)
      [] c = "c2" -> BlameOk("c2", <<"c1", "c2">>)
      [] c = "c3" -> BlameOk("c3", <<"c1", "c2", "c3">>)

\* path_kind: what FilePath is on disk.  syntax: whether the highlighter
\* knows the file's extension ("none": no extension).
Repo(kind, syntax, merge, b1, b2, b3) ==
    [path_kind |-> kind, syntax |-> syntax, merge |-> merge,
     blame |-> [c1 |-> b1, c2 |-> b2, c3 |-> b3]]

Repos ==
    {Repo("file", "known", FALSE, b1, b2, b3) :
        b1 \in BlameOutputs("c1"), b2 \in BlameOutputs("c2"), b3 \in BlameOutputs("c3")}
    \cup {Repo("file", "known", TRUE, DefaultBlame("c1"), DefaultBlame("c2"), b3) :
        b3 \in BlameOutputs("c3")}
    \cup {Repo(kind, syntax, FALSE, DefaultBlame("c1"), DefaultBlame("c2"), DefaultBlame("c3")) :
        kind \in {"missing", "dir", "outside", "file"}, syntax \in {"none", "known", "unknown"}}

\* A blame line for the root commit printed without the boundary marker (as
\* git does under blame.showRoot), next to lines printed with it.
RawLineUnmarked(c, k, sha) == [RawLine(c, k, sha) EXCEPT !.commit = <<sha>>]
LineForms(c, k) ==
    {RawLine(c, k, "c1"), RawLineUnmarked(c, k, "c1"), RawLine(c, k, "c3")}
BoundaryOutputs ==
    {[exists |-> TRUE, status_ok |-> TRUE, lines |-> ls] :
        ls \in {f \in UNION {[1..n -> UNION {LineForms("c3", k) : k \in 1..MaxLines}] :
                                n \in 1..MaxLines} :
                    \A k \in 1..Len(f) : f[k] \in LineForms("c3", k)}}
ReposBoundary ==
    {Repo("file", "known", FALSE, DefaultBlame("c1"), DefaultBlame("c2"), b3) :
        b3 \in BoundaryOutputs}

----------------------------------------------------------------------------
\* Gateway requests, as logged in `requests`.
Req(name, arg) == <<name, arg>>

\* Path::canonicalize succeeds only for a path that exists on disk.
CanonicalizeOk(g) == g.path_kind # "missing"
PathExists(g) == g.path_kind # "missing"
PathIsFile(g) == g.path_kind \in {"outside", "file"}
\* `git rev-parse --show-toplevel` in the file's directory.
ShowToplevelOk(g) == g.path_kind # "outside"
\* `git rev-parse --is-inside-work-tree` in the resolved root.
InsideWorkTree(g) == g.path_kind # "outside"

\* `git cat-file -e <ref>:<path>`: success iff the ref names a commit whose
\* tree holds the file.
CatFileExists(g, ref) ==
    LET c == ResolveRef(ref) IN IsSome(c) /\ g.blame[Unwrap(c)].exists

\* FileBlame::exists_at_commit.  Panics where canonicalize or git_root_dir do.
exists_at_commit(g, filepath, ref) ==
    IF ~CanonicalizeOk(g) THEN [panic |-> TRUE, value |-> FALSE, requests |-> <<>>]
    ELSE IF ~ShowToplevelOk(g)
    THEN [panic |-> TRUE, value |-> FALSE,
          requests |-> <<Req("rev-parse --show-toplevel", filepath)>>]
    ELSE [panic |-> FALSE, value |-> CatFileExists(g, ref),
          requests |-> <<Req("rev-parse --show-toplevel", filepath),
                         Req("cat-file -e", ref)>>]

\* str::trim_start_matches("^") on the captured commit token.
RECURSIVE TrimStartMatches(_, _)
TrimStartMatches(token, pat) ==
    IF token # <<>> /\ Head(token) = pat
    THEN TrimStartMatches(Tail(token), pat)
    ELSE token

\* str::split_once: the text before and after the first delimiter, or None.
FirstIndexOf(s, d) ==
    IF \E i \in 1..Len(s) : s[i] = d
    THEN CHOOSE i \in 1..Len(s) : s[i] = d /\ \A j \in 1..(i - 1) : s[j] # d
    ELSE 0
SplitOnce(s, d) ==
    LET i == FirstIndexOf(s, d) IN
    IF i = 0 THEN None
    ELSE Some(<<SubSeq(s, 1, i - 1), SubSeq(s, i + 1, Len(s))>>)

\* `git show <sha> --pretty=format:%p-%s --no-patch`
ShowCommitSummary(g, sha) == ParentField(g, sha) \o <<"-">> \o Subject(sha)

\* The optional highlighting transform on a line's contents.
Highlight(g, contents) ==
    IF g.syntax = "none" THEN contents ELSE <<"esc", contents>>

\* The Commit built on a cache miss (file_blame.rs 265-297).
FetchCommit(g, line, commit) ==
    LET parts == Unwrap(SplitOnce(ShowCommitSummary(g, commit), "-"))
        parent_commit == parts[1]
    IN  [sha |-> commit,
         author |-> line.author,
         commit_message |-> parts[2],
         timestamp |-> line.timestamp,
         parent_commit_sha |->
             IF parent_commit = <<>> THEN None ELSE Some(parent_commit[1])]

\* The loop of parse asking the gateway for the commit of every line, cached
\* or not.
RECURSIVE ParseLines_always_fetch(_, _, _, _, _, _)
ParseLines_always_fetch(g, raw, k, cache, parsed, reqs) ==
    IF k > Len(raw)
    THEN [panic |-> FALSE, cache |-> cache, blame_lines |-> parsed, requests |-> reqs]
    ELSE
        LET line == raw[k] IN
        IF ~line.matches
        THEN [panic |-> TRUE, cache |-> cache, blame_lines |-> parsed, requests |-> reqs]
        ELSE
            LET commit == TrimStartMatches(line.commit, "^")[1]
                cache2 == (commit :> FetchCommit(g, line, commit)) @@ cache
                reqs2 == Append(reqs, Req("show", commit))
                blame_line == [line_number |-> line.line_number,
                               contents |-> Highlight(g, line.contents),
                               commit_sha |-> commit]
            IN  ParseLines_always_fetch(g, raw, k + 1, cache2, Append(parsed, blame_line), reqs2)

\* The loop of parse storing a fetched commit under the captured token as
\* printed (boundary marker included) instead of under the stripped sha.
RECURSIVE ParseLines_key_with_marker(_, _, _, _, _, _)
ParseLines_key_with_marker(g, raw, k, cache, parsed, reqs) ==
    IF k > Len(raw)
    THEN [panic |-> FALSE, cache |-> cache, blame_lines |-> parsed, requests |-> reqs]
    ELSE
        LET line == raw[k] IN
        IF ~line.matches
        THEN [panic |-> TRUE, cache |-> cache, blame_lines |-> parsed, requests |-> reqs]
        ELSE
            LET commit == TrimStartMatches(line.commit, "^")[1]
                miss == commit \notin DOMAIN cache
                cache2 == IF miss
                          THEN (line.commit[1] :> FetchCommit(g, line, commit)) @@ cache
                          ELSE cache
                reqs2 == IF miss THEN Append(reqs, Req("show", commit)) ELSE reqs
                blame_line == [line_number |-> line.line_number,
                               contents |-> Highlight(g, line.contents),
                               commit_sha |-> commit]
            IN  ParseLines_key_with_marker(g, raw, k + 1, cache2, Append(parsed, blame_line), reqs2)

\* The loop of parse using the captured token as it begins, boundary marker
\* included, as the line's commit_sha and as the cache key.
RECURSIVE ParseLines_no_strip(_, _, _, _, _, _)
ParseLines_no_strip(g, raw, k, cache, parsed, reqs) ==
    IF k > Len(raw)
    THEN [panic |-> FALSE, cache |-> cache, blame_lines |-> parsed, requests |-> reqs]
    ELSE
        LET line == raw[k] IN
        IF ~line.matches
        THEN [panic |-> TRUE, cache |-> cache, blame_lines |-> parsed, requests |-> reqs]
        ELSE
            LET commit == line.commit[1]
                stripped == TrimStartMatches(line.commit, "^")[1]
                miss == commit \notin DOMAIN cache
                cache2 == IF miss
                          THEN (commit :> FetchCommit(g, line, stripped)) @@ cache
                          ELSE cache
                reqs2 == IF miss THEN Append(reqs, Req("show", stripped)) ELSE reqs
                blame_line == [line_number |-> line.line_number,
                               contents |-> Highlight(g, line.contents),
                               commit_sha |-> commit]
            IN  ParseLines_no_strip(g, raw, k + 1, cache2, Append(parsed, blame_line), reqs2)

\* The loop over the blame output's lines (file_blame.rs 239-304).
RECURSIVE ParseLines(_, _, _, _, _, _)
ParseLines(g, raw, k, cache, parsed, reqs) ==
    IF k > Len(raw)
    THEN [panic |-> FALSE, cache |-> cache, blame_lines |-> parsed, requests |-> reqs]
    ELSE
        LET line == raw[k] IN
        IF ~line.matches
        THEN [panic |-> TRUE, cache |-> cache, blame_lines |-> parsed, requests |-> reqs]
        ELSE
            LET commit == TrimStartMatches(line.commit, "^")[1]
                miss == commit \notin DOMAIN cache
                cache2 == IF miss
                          THEN (commit :> FetchCommit(g, line, commit)) @@ cache
                          ELSE cache
                reqs2 == IF miss THEN Append(reqs, Req("show", commit)) ELSE reqs
                blame_line == [line_number |-> line.line_number,
                               contents |-> Highlight(g, line.contents),
                               commit_sha |-> commit]
            IN  ParseLines(g, raw, k + 1, cache2, Append(parsed, blame_line), reqs2)

ParsePanic(reqs) ==
    [outcome |-> "panic", err |-> "", file_blame |-> None, cache |-> <<>>, requests |-> reqs]
ParseErr(e, reqs) ==
    [outcome |-> "err", err |-> e, file_blame |-> None, cache |-> <<>>, requests |-> reqs]

\* FileBlame::parse: the snapshot for filepath at ref, or a typed failure, or
\* a panic.  On "ok", cache is the commit cache after the build.
parse(g, filepath, ref, cache) ==
    IF ~CanonicalizeOk(g) THEN ParsePanic(<<>>)
    ELSE IF ~PathExists(g) THEN ParseErr("NotExist", <<>>)
    ELSE IF ~PathIsFile(g) THEN ParseErr("NotFile", <<>>)
    ELSE IF ~ShowToplevelOk(g)
    THEN ParsePanic(<<Req("rev-parse --show-toplevel", filepath)>>)
    ELSE
        LET r1 == <<Req("rev-parse --show-toplevel", filepath),
                    Req("rev-parse --is-inside-work-tree", filepath)>>
        IN
        IF ~InsideWorkTree(g) THEN ParseErr("NotGit", r1)
        ELSE
            LET probe == exists_at_commit(g, filepath, ref)
                r2 == r1 \o probe.requests
            IN
            IF probe.panic THEN ParsePanic(r2)
            ELSE IF ~probe.value THEN ParseErr("MissingAtCommit", r2)
            ELSE
                LET out == g.blame[Unwrap(ResolveRef(ref))]
                    r3 == Append(r2, Req("blame", ref))
                IN
                IF ~out.status_ok THEN ParseErr("Unknown", r3)
                ELSE IF g.syntax = "unknown" THEN ParsePanic(r3)
                ELSE
                    LET res == ParseLines(g, out.lines, 1, cache, <<>>, r3) IN
                    IF res.panic THEN ParsePanic(res.requests)
                    ELSE [outcome |-> "ok", err |-> "",
                          file_blame |-> Some([blame_lines |-> res.blame_lines,
                                               filepath |-> filepath,
                                               commit_sha |-> ref]),
                          cache |-> res.cache,
                          requests |-> res.requests]

----------------------------------------------------------------------------
\* The App as a record, so that an operation is a function from App to App.
Self ==
    [running |-> running, selected |-> selected, file_path |-> file_path,
     commit_sha |-> commit_sha, file_blame |-> file_blame,
     commit_cache |-> commit_cache, commit_stack |-> commit_stack,
     load_err |-> load_err, panicked |-> panicked, requests |-> <<>>]

Panic(a) == [a EXCEPT !.panicked = TRUE]
\* TableState::select stores the index as given; selected() reads it back.
Select(a, i) == [a EXCEPT !.selected = Some(i)]
BlameLines(a) == Unwrap(a.file_blame).blame_lines

\* `len - 1` on usize: a panic when the build checks overflow, a wrap otherwise.
LenMinusOnePanics(len, oc) == len = 0 /\ oc
LenMinusOne(len) == WrappingSub(len, 1)

\* App::quit
quit(a) == [a EXCEPT !.running = FALSE]

\* load_blame building every snapshot with a cache of its own.
load_blame_fresh_cache(a, g, oc, path, sha) ==
    LET r == parse(g, path, sha, <<>>)
        a1 == [a EXCEPT !.requests = a.requests \o r.requests]
    IN
    IF r.outcome = "panic" THEN Panic(a1)
    ELSE IF r.outcome = "err" THEN quit([a1 EXCEPT !.load_err = Some(r.err)])
    ELSE
        LET a2 == [a1 EXCEPT !.file_blame = r.file_blame,
                             !.file_path = path,
                             !.commit_sha = sha,
                             !.commit_cache = r.cache]
            len == Len(BlameLines(a2))
        IN
        IF IsSome(a2.selected)
        THEN
            LET i == Unwrap(a2.selected) IN
            IF LenMinusOnePanics(len, oc) THEN Panic(a2)
            ELSE IF i >= LenMinusOne(len) THEN Select(a2, LenMinusOne(len))
            ELSE Select(a2, i)
        ELSE Select(a2, 0)

\* load_blame recording a build error without ending the session.
load_blame_no_quit(a, g, oc, path, sha) ==
    LET r == parse(g, path, sha, a.commit_cache)
        a1 == [a EXCEPT !.requests = a.requests \o r.requests]
    IN
    IF r.outcome = "panic" THEN Panic(a1)
    ELSE IF r.outcome = "err" THEN [a1 EXCEPT !.load_err = Some(r.err)]
    ELSE
        LET a2 == [a1 EXCEPT !.file_blame = r.file_blame,
                             !.file_path = path,
                             !.commit_sha = sha,
                             !.commit_cache = r.cache]
            len == Len(BlameLines(a2))
        IN
        IF IsSome(a2.selected)
        THEN
            LET i == Unwrap(a2.selected) IN
            IF LenMinusOnePanics(len, oc) THEN Panic(a2)
            ELSE IF i >= LenMinusOne(len) THEN Select(a2, LenMinusOne(len))
            ELSE Select(a2, i)
        ELSE Select(a2, 0)

\* App::load_blame
load_blame(a, g, oc, path, sha) ==
    LET r == parse(g, path, sha, a.commit_cache)
        a1 == [a EXCEPT !.requests = a.requests \o r.requests]
    IN
    IF r.outcome = "panic" THEN Panic(a1)
    ELSE IF r.outcome = "err" THEN quit([a1 EXCEPT !.load_err = Some(r.err)])
    ELSE
        LET a2 == [a1 EXCEPT !.file_blame = r.file_blame,
                             !.file_path = path,
                             !.commit_sha = sha,
                             !.commit_cache = r.cache]
            len == Len(BlameLines(a2))
        IN
        IF IsSome(a2.selected)
        THEN
            LET i == Unwrap(a2.selected) IN
            IF LenMinusOnePanics(len, oc) THEN Panic(a2)
            ELSE IF i >= LenMinusOne(len) THEN Select(a2, LenMinusOne(len))
            ELSE Select(a2, i)
        ELSE Select(a2, 0)

\* App::new
new(g, oc, path, sha) ==
    load_blame([running |-> TRUE, selected |-> None, file_path |-> path,
                commit_sha |-> sha, file_blame |-> None, commit_cache |-> <<>>,
                commit_stack |-> <<>>, load_err |-> None, panicked |-> FALSE,
                requests |-> <<>>],
               g, oc, path, sha)

\* The while loop of next_block: from 0-based index k, skip lines of commit sha.
RECURSIVE ScanForward(_, _, _)
ScanForward(lines, sha, k) ==
    IF k < Len(lines) /\ sha = lines[k + 1].commit_sha
    THEN ScanForward(lines, sha, k + 1)
    ELSE k

\* App::next_block
next_block(a, oc) ==
    IF ~IsSome(a.selected) THEN Select(a, 0)
    ELSE IF ~IsSome(a.file_blame) THEN Panic(a)
    ELSE
        LET lines == BlameLines(a)
            len == Len(lines)
            current_index == Unwrap(a.selected)
        IN
        IF LenMinusOnePanics(len, oc) THEN Panic(a)
        ELSE IF current_index >= LenMinusOne(len) THEN Select(a, LenMinusOne(len))
        ELSE IF current_index >= len THEN Panic(a)
        ELSE Select(a, ScanForward(lines, lines[current_index + 1].commit_sha,
                                   current_index + 1))

\* The while loop of previous_block: from 0-based index k, step back while
\* the line before k is of commit sha.
RECURSIVE ScanBackward(_, _, _)
ScanBackward(lines, sha, k) ==
    IF k > 0 /\ sha = lines[k].commit_sha
    THEN ScanBackward(lines, sha, k - 1)
    ELSE k

\* previous_block forgetting the drill-down history as it moves.
previous_block_clears_stack(a) ==
    IF ~IsSome(a.selected) THEN Select(a, 0)
    ELSE
        LET current_index == Unwrap(a.selected)
            b == [a EXCEPT !.commit_stack = <<>>]
        IN
        IF current_index <= 1 THEN Select(b, 0)
        ELSE IF ~IsSome(a.file_blame) THEN Panic(a)
        ELSE IF current_index - 1 >= Len(BlameLines(a)) THEN Panic(a)
        ELSE Select(b, ScanBackward(BlameLines(a),
                                    BlameLines(a)[current_index].commit_sha,
                                    current_index - 1))

\* App::previous_block
previous_block(a) ==
    IF ~IsSome(a.selected) THEN Select(a, 0)
    ELSE
        LET current_index == Unwrap(a.selected) IN
        IF current_index <= 1 THEN Select(a, 0)
        ELSE IF ~IsSome(a.file_blame) THEN Panic(a)
        ELSE IF current_index - 1 >= Len(BlameLines(a)) THEN Panic(a)
        ELSE Select(a, ScanBackward(BlameLines(a),
                                    BlameLines(a)[current_index].commit_sha,
                                    current_index - 1))

\* next_line without the wrap at the last line.
next_line_no_wrap(a, oc) ==
    IF ~IsSome(a.selected) THEN Select(a, 0)
    ELSE IF ~IsSome(a.file_blame) THEN Panic(a)
    ELSE Select(a, Unwrap(a.selected) + 1)

\* App::next_line
next_line(a, oc) ==
    IF ~IsSome(a.selected) THEN Select(a, 0)
    ELSE IF ~IsSome(a.file_blame) THEN Panic(a)
    ELSE
        LET len == Len(BlameLines(a))
            i == Unwrap(a.selected)
        IN
        IF LenMinusOnePanics(len, oc) THEN Panic(a)
        ELSE IF i >= LenMinusOne(len) THEN Select(a, 0)
        ELSE Select(a, i + 1)

\* App::previous_line
previous_line(a, oc) ==
    IF ~IsSome(a.selected) THEN Select(a, 0)
    ELSE
        LET i == Unwrap(a.selected) IN
        IF i = 0
        THEN
            IF ~IsSome(a.file_blame) THEN Panic(a)
            ELSE IF LenMinusOnePanics(Len(BlameLines(a)), oc) THEN Panic(a)
            ELSE Select(a, LenMinusOne(Len(BlameLines(a))))
        ELSE Select(a, i - 1)

\* next_commit pushing the ref before it checks that there is a parent to show.
next_commit_push_first(a, g, oc) ==
    IF ~IsSome(a.selected) \/ ~IsSome(a.file_blame) THEN Panic(a)
    ELSE IF Unwrap(a.selected) >= Len(BlameLines(a)) THEN Panic(a)
    ELSE
        LET blame_line == BlameLines(a)[Unwrap(a.selected) + 1]
            pushed == [a EXCEPT !.commit_stack = Append(a.commit_stack, a.commit_sha)]
        IN
        IF blame_line.commit_sha \notin DOMAIN a.commit_cache THEN Panic(a)
        ELSE
            LET commit_context == a.commit_cache[blame_line.commit_sha] IN
            IF ~IsSome(commit_context.parent_commit_sha) THEN pushed
            ELSE
                LET parent == Unwrap(commit_context.parent_commit_sha)
                    probe == exists_at_commit(g, a.file_path, parent)
                    a1 == [pushed EXCEPT !.requests = a.requests \o probe.requests]
                IN
                IF probe.panic THEN Panic(a1)
                ELSE IF ~probe.value THEN a1
                ELSE load_blame(a1, g, oc, a.file_path, parent)

\* next_commit pushing the parent ref it moves to instead of the current ref.
next_commit_pushes_parent(a, g, oc) ==
    IF ~IsSome(a.selected) \/ ~IsSome(a.file_blame) THEN Panic(a)
    ELSE IF Unwrap(a.selected) >= Len(BlameLines(a)) THEN Panic(a)
    ELSE
        LET blame_line == BlameLines(a)[Unwrap(a.selected) + 1] IN
        IF blame_line.commit_sha \notin DOMAIN a.commit_cache THEN Panic(a)
        ELSE
            LET commit_context == a.commit_cache[blame_line.commit_sha] IN
            IF ~IsSome(commit_context.parent_commit_sha) THEN a
            ELSE
                LET parent == Unwrap(commit_context.parent_commit_sha)
                    probe == exists_at_commit(g, a.file_path, parent)
                    a1 == [a EXCEPT !.requests = a.requests \o probe.requests]
                IN
                IF probe.panic THEN Panic(a1)
                ELSE IF ~probe.value THEN a1
                ELSE load_blame([a1 EXCEPT !.commit_stack = Append(a.commit_stack, parent)],
                                g, oc, a.file_path, parent)

\* next_commit rebuilding at the parent without probing that the file exists there.
next_commit_no_probe(a, g, oc) ==
    IF ~IsSome(a.selected) \/ ~IsSome(a.file_blame) THEN Panic(a)
    ELSE IF Unwrap(a.selected) >= Len(BlameLines(a)) THEN Panic(a)
    ELSE
        LET blame_line == BlameLines(a)[Unwrap(a.selected) + 1] IN
        IF blame_line.commit_sha \notin DOMAIN a.commit_cache THEN Panic(a)
        ELSE
            LET commit_context == a.commit_cache[blame_line.commit_sha] IN
            IF ~IsSome(commit_context.parent_commit_sha) THEN a
            ELSE
                LET parent == Unwrap(commit_context.parent_commit_sha) IN
                load_blame([a EXCEPT !.commit_stack = Append(a.commit_stack, a.commit_sha)],
                           g, oc, a.file_path, parent)

\* next_commit rebuilding at the selected line's own commit instead of at its parent.
next_commit_same_commit(a, g, oc) ==
    IF ~IsSome(a.selected) \/ ~IsSome(a.file_blame) THEN Panic(a)
    ELSE IF Unwrap(a.selected) >= Len(BlameLines(a)) THEN Panic(a)
    ELSE
        LET blame_line == BlameLines(a)[Unwrap(a.selected) + 1] IN
        IF blame_line.commit_sha \notin DOMAIN a.commit_cache THEN Panic(a)
        ELSE
            LET commit_context == a.commit_cache[blame_line.commit_sha] IN
            IF ~IsSome(commit_context.parent_commit_sha) THEN a
            ELSE
                LET target == commit_context.sha
                    probe == exists_at_commit(g, a.file_path, target)
                    a1 == [a EXCEPT !.requests = a.requests \o probe.requests]
                IN
                IF probe.panic THEN Panic(a1)
                ELSE IF ~probe.value THEN a1
                ELSE load_blame([a1 EXCEPT !.commit_stack = Append(a.commit_stack, a.commit_sha)],
                                g, oc, a.file_path, target)

\* App::next_commit
next_commit(a, g, oc) ==
    IF ~IsSome(a.selected) \/ ~IsSome(a.file_blame) THEN Panic(a)
    ELSE IF Unwrap(a.selected) >= Len(BlameLines(a)) THEN Panic(a)
    ELSE
        LET blame_line == BlameLines(a)[Unwrap(a.selected) + 1] IN
        IF blame_line.commit_sha \notin DOMAIN a.commit_cache THEN Panic(a)
        ELSE
            LET commit_context == a.commit_cache[blame_line.commit_sha] IN
            IF ~IsSome(commit_context.parent_commit_sha) THEN a
            ELSE
                LET parent == Unwrap(commit_context.parent_commit_sha)
                    probe == exists_at_commit(g, a.file_path, parent)
                    a1 == [a EXCEPT !.requests = a.requests \o probe.requests]
                IN
                IF probe.panic THEN Panic(a1)
                ELSE IF ~probe.value THEN a1
                ELSE load_blame([a1 EXCEPT !.commit_stack = Append(a.commit_stack, a.commit_sha)],
                                g, oc, a.file_path, parent)

\* previous_commit taking the oldest pushed ref instead of the newest.
previous_commit_fifo(a, g, oc) ==
    IF a.commit_stack = <<>> THEN a
    ELSE load_blame([a EXCEPT !.commit_stack = Tail(a.commit_stack)],
                    g, oc, a.file_path, Head(a.commit_stack))

\* App::previous_commit
previous_commit(a, g, oc) ==
    IF a.commit_stack = <<>> THEN a
    ELSE load_blame([a EXCEPT !.commit_stack = SubSeq(a.commit_stack, 1, Len(a.commit_stack) - 1)],
                    g, oc, a.file_path, a.commit_stack[Len(a.commit_stack)])

----------------------------------------------------------------------------
\* A panic ends the process: nothing of the interrupted operation is kept.
Outcome(pre, post) == IF post.panicked THEN Panic(pre) ELSE post

Install(a, op) ==
    /\ running' = a.running
    /\ selected' = a.selected
    /\ file_path' = a.file_path
    /\ commit_sha' = a.commit_sha
    /\ file_blame' = a.file_blame
    /\ commit_cache' = a.commit_cache
    /\ commit_stack' = a.commit_stack
    /\ load_err' = a.load_err
    /\ panicked' = a.panicked
    /\ requests' = a.requests
    /\ last_op' = op
    /\ UNCHANGED <<overflow_checks, git>>

\* The two build profiles differ only where usize arithmetic overflows, which
\* takes an empty snapshot; for the other repositories one profile stands for both.
BuildProfiles(g) ==
    IF \E c \in Commits : g.blame[c].status_ok /\ g.blame[c].lines = <<>>
    THEN BOOLEAN
    ELSE {FALSE}

\* main: the state after App::new(filepath, gitref) with the default ref.
Init ==
    \E g \in Repos :
    \E oc \in BuildProfiles(g) :
        \E a \in {new(g, oc, FilePath, HeadRef)} :
        /\ git = g
        /\ overflow_checks = oc
        /\ running = a.running
        /\ selected = a.selected
        /\ file_path = a.file_path
        /\ commit_sha = a.commit_sha
        /\ file_blame = a.file_blame
        /\ commit_cache = a.commit_cache
        /\ commit_stack = a.commit_stack
        /\ load_err = a.load_err
        /\ panicked = a.panicked
        /\ requests = a.requests
        /\ last_op = "new"

\* Display for FileBlameError.
Display(e) ==
    CASE e = "NotExist" -> "File doesn't exist"
      [] e = "NotFile" -> "Provided path is not a regular file"
      [] e = "NotGit" -> "File is not in a git repository"
      [] e = "MissingAtCommit" -> "File does not exist at commit"
      [] e = "Unknown" -> "Unknown error: "

\* main after App::new: whether the body of `while app.running` runs at all
\* from App a, and what main does once the loop is over: print load_err if
\* there is one, then return Ok(()), which is exit status 0.
LoopEntered(a) == a.running
ExitSuccess == 0
main_exit(a) ==
    [stdout |-> IF IsSome(a.load_err)
                THEN <<"Error: ", Display(Unwrap(a.load_err))>>
                ELSE <<>>,
     status |-> ExitSuccess]

\* main's loop runs a handler only while app.running (and the process lives).
Dispatching == running /\ ~panicked

KeyQuit == Dispatching /\ Install(quit(Self), "quit")
KeyPreviousBlock == Dispatching /\ Install(Outcome(Self, previous_block(Self)), "previous_block")
KeyNextBlock == Dispatching /\ Install(Outcome(Self, next_block(Self, overflow_checks)), "next_block")
KeyNextLine == Dispatching /\ Install(Outcome(Self, next_line(Self, overflow_checks)), "next_line")
KeyPreviousLine == Dispatching /\ Install(Outcome(Self, previous_line(Self, overflow_checks)), "previous_line")
KeyNextCommit == Dispatching /\ Install(Outcome(Self, next_commit(Self, git, overflow_checks)), "next_commit")
KeyPreviousCommit == Dispatching /\ Install(Outcome(Self, previous_commit(Self, git, overflow_checks)), "previous_commit")

\* Event::Tick runs App::tick, which does nothing; mouse and resize events and
\* keys without a binding are ignored.  last_op and requests keep describing
\* the last operation that ran.
Tick == Dispatching /\ UNCHANGED vars
EventIgnored == Dispatching /\ UNCHANGED vars

Next ==
    \/ Tick
    \/ EventIgnored
    \/ KeyQuit
    \/ KeyPreviousBlock
    \/ KeyNextBlock
    \/ KeyNextLine
    \/ KeyPreviousLine
    \/ KeyNextCommit
    \/ KeyPreviousCommit

Spec == Init /\ [][Next]_vars

\* The same program started on a repository whose blame at HEAD prints the
\* root commit in both forms.
InitBoundary ==
    \E g \in ReposBoundary :
    \E oc \in BuildProfiles(g) :
        \E a \in {new(g, oc, FilePath, HeadRef)} :
        /\ git = g
        /\ overflow_checks = oc
        /\ running = a.running
        /\ selected = a.selected
        /\ file_path = a.file_path
        /\ commit_sha = a.commit_sha
        /\ file_blame = a.file_blame
        /\ commit_cache = a.commit_cache
        /\ commit_stack = a.commit_stack
        /\ load_err = a.load_err
        /\ panicked = a.panicked
        /\ requests = a.requests
        /\ last_op = "new"

SpecBoundary == InitBoundary /\ [][Next]_vars

----------------------------------------------------------------------------
\* Vocabulary of the properties.

HasSnapshot == IsSome(file_blame)
NumLines == Len(BlameLines(Self))
SelectedIndex == Unwrap(selected)
SelectionInBounds ==
    IsSome(selected) /\ 0 <= SelectedIndex /\ SelectedIndex < NumLines

\* 0-based access to the current snapshot.
ShaAt(i) == BlameLines(Self)[i + 1].commit_sha

\* A block start: index 0 and every index whose sha differs from its predecessor's.
BlockStarts == {i \in 0..(NumLines - 1) : i = 0 \/ ShaAt(i) # ShaAt(i - 1)}
SetMax(S) == CHOOSE x \in S : \A y \in S : y <= x
SetMin(S) == CHOOSE x \in S : \A y \in S : x <= y
BlockStartOf(i) == SetMax({j \in BlockStarts : j <= i})

\* The rebuild an operation started: the blame request it issued.
BlameRequests(a) == {k \in 1..Len(a.requests) : a.requests[k][1] = "blame"}
RebuildStarted(a) == BlameRequests(a) # {}
RebuildRef(a) == a.requests[SetMin(BlameRequests(a))][2]

\* The cached parent of the selected line's commit.
SelectedLineKnown ==
    HasSnapshot /\ SelectionInBounds /\ ShaAt(SelectedIndex) \in DOMAIN commit_cache
SelectedParent == commit_cache[ShaAt(SelectedIndex)].parent_commit_sha

----------------------------------------------------------------------------
\* C1: whenever a snapshot exists (and the process lives), the selected index
\* is defined and satisfies 0 <= selected_index < len(blame_lines).
C1_SelectedIndexInBounds ==
    (HasSnapshot /\ ~panicked) => SelectionInBounds

\* C2: on any non-empty snapshot, next_block applied repeatedly from index 0
\* visits exactly the block starts, in ascending order, and stays at the last
\* block start once it is reached.
C2_NextBlockVisitsBlockStarts ==
    (HasSnapshot /\ ~panicked /\ NumLines > 0) =>
        LET steps == NumLines + 1
            it[k \in 0..steps] ==
                IF k = 0 THEN Select(Self, 0)
                ELSE next_block(it[k - 1], overflow_checks)
            at(k) == Unwrap(it[k].selected)
            last == SetMax(BlockStarts)
        IN
        /\ \A k \in 0..steps : ~it[k].panicked
        /\ {at(k) : k \in 0..steps} = BlockStarts
        /\ \A k \in 0..(steps - 1) :
              IF at(k) = last THEN at(k + 1) = last ELSE at(k) < at(k + 1)

\* C3: a next_commit that drills down, followed by previous_commit, restores
\* the ref, the snapshot (same ordered lines), the filepath and the history stack.
C3_DrillDownRoundTrip ==
    Dispatching =>
        LET down == next_commit(Self, git, overflow_checks) IN
        (/\ ~down.panicked
         /\ down.running
         /\ Len(down.commit_stack) = Len(commit_stack) + 1) =>
            LET back == previous_commit(down, git, overflow_checks) IN
            /\ ~back.panicked
            /\ back.running
            /\ back.commit_sha = commit_sha
            /\ back.file_blame = file_blame
            /\ back.file_path = file_path
            /\ back.commit_stack = commit_stack

\* C3 witness: previous_commit has returned to the original ref with an empty
\* stack, after a drill-down (nothing else pushes).
C3_Witness ==
    /\ last_op = "previous_commit"
    /\ Dispatching
    /\ RebuildStarted([requests |-> requests])
    /\ commit_stack = <<>>
    /\ commit_sha = HeadRef
    /\ HasSnapshot
    /\ Unwrap(file_blame).commit_sha = HeadRef

\* C4: next_commit on a selected line whose commit has no parent, or whose
\* parent ref fails the existence probe, changes nothing of the App and starts
\* no rebuild.
C4_DrillDownNoOp ==
    (/\ Dispatching
     /\ SelectedLineKnown
     /\ \/ ~IsSome(SelectedParent)
        \/ ~CatFileExists(git, Unwrap(SelectedParent))) =>
        LET post == next_commit(Self, git, overflow_checks) IN
        /\ [post EXCEPT !.requests = <<>>] = Self
        /\ ~RebuildStarted(post)

\* C4 witness: next_commit ran, probed a parent that does not hold the file,
\* and returned without a rebuild.
C4_Witness ==
    /\ last_op = "next_commit"
    /\ Dispatching
    /\ SelectedLineKnown
    /\ IsSome(SelectedParent)
    /\ ~CatFileExists(git, Unwrap(SelectedParent))
    /\ requests # <<>>
    /\ ~RebuildStarted([requests |-> requests])

\* C5: after a rebuild whose build succeeds (next_commit or previous_commit),
\* the operation has not failed, an index within the new snapshot is kept, any
\* other index becomes the new last index, and the result is in range.
C5_SelectionClampedAfterRebuild ==
    (Dispatching /\ IsSome(selected)) =>
        \A post \in {next_commit(Self, git, overflow_checks),
                     previous_commit(Self, git, overflow_checks)} :
            RebuildStarted(post) =>
                LET built == parse(git, file_path, RebuildRef(post), commit_cache) IN
                built.outcome = "ok" =>
                    LET new_len == Len(Unwrap(built.file_blame).blame_lines) IN
                    /\ ~post.panicked
                    /\ post.selected =
                          Some(IF SelectedIndex < new_len THEN SelectedIndex ELSE new_len - 1)
                    /\ Unwrap(post.selected) \in 0..(new_len - 1)

\* C6: from an in-bounds index i, next_block selects the smallest j > i whose
\* sha differs from the sha at i, and the last index when there is no such j.
C6_NextBlockTarget ==
    (Dispatching /\ HasSnapshot /\ SelectionInBounds) =>
        LET post == next_block(Self, overflow_checks)
            later == {j \in (SelectedIndex + 1)..(NumLines - 1) :
                          ShaAt(j) # ShaAt(SelectedIndex)}
        IN
        /\ ~post.panicked
        /\ post.selected = Some(IF later # {} THEN SetMin(later) ELSE NumLines - 1)

\* C7: from an in-bounds index i, previous_block selects the first index of
\* the block before the block that holds i, and 0 when i <= 1 or i is in the
\* first block, whether i starts its block or lies inside it.
C7_PreviousBlockTarget ==
    (Dispatching /\ HasSnapshot /\ SelectionInBounds) =>
        LET post == previous_block(Self)
            own == BlockStartOf(SelectedIndex)
        IN
        /\ ~post.panicked
        /\ post.selected =
              Some(IF SelectedIndex <= 1 \/ own = 0 THEN 0 ELSE BlockStartOf(own - 1))

\* C8: from an in-bounds index, next_line and previous_line move by one with
\* wrap-around, and each undoes the other.
C8_LineMovesWrapAndInvert ==
    (Dispatching /\ HasSnapshot /\ SelectionInBounds) =>
        LET down == next_line(Self, overflow_checks)
            up == previous_line(Self, overflow_checks)
        IN
        /\ ~down.panicked /\ ~up.panicked
        /\ down.selected = Some(IF SelectedIndex = NumLines - 1 THEN 0 ELSE SelectedIndex + 1)
        /\ up.selected = Some(IF SelectedIndex = 0 THEN NumLines - 1 ELSE SelectedIndex - 1)
        /\ previous_line(down, overflow_checks) = Self
        /\ next_line(up, overflow_checks) = Self

\* C8 witness: next_line has wrapped to index 0 on a snapshot of several lines.
C8_Witness ==
    /\ last_op = "next_line"
    /\ Dispatching
    /\ HasSnapshot
    /\ NumLines >= 2
    /\ selected = Some(0)

\* C9: when the selected line's commit has a parent at which the file exists
\* and the build at that parent succeeds, next_commit pushes the old current
\* ref and leaves the App viewing the parent ref for the same filepath.
C9_DrillDownPushesAndRebuilds ==
    (/\ Dispatching
     /\ SelectedLineKnown
     /\ IsSome(SelectedParent)
     /\ CatFileExists(git, Unwrap(SelectedParent))
     /\ parse(git, file_path, Unwrap(SelectedParent), commit_cache).outcome = "ok") =>
        LET post == next_commit(Self, git, overflow_checks)
            built == parse(git, file_path, Unwrap(SelectedParent), commit_cache)
        IN
        /\ ~post.panicked
        /\ post.commit_stack = Append(commit_stack, commit_sha)
        /\ post.commit_sha = Unwrap(SelectedParent)
        /\ post.file_path = file_path
        /\ post.file_blame = built.file_blame

\* C10: previous_commit with an empty stack changes nothing and asks the
\* gateway nothing; otherwise it removes exactly the top ref and rebuilds at
\* it for the same filepath, so popping the whole stack revisits the pushed
\* refs newest first and ends at the ref the session started with.
C10_PreviousCommitLifo ==
    Dispatching =>
        LET n == Len(commit_stack)
            it[k \in 0..n] ==
                IF k = 0 THEN Self
                ELSE previous_commit([it[k - 1] EXCEPT !.requests = <<>>],
                                     git, overflow_checks)
        IN
        /\ n = 0 => previous_commit(Self, git, overflow_checks) = Self
        /\ \A k \in 1..n :
              /\ ~it[k].panicked
              /\ it[k].running
              /\ it[k].commit_stack = SubSeq(commit_stack, 1, n - k)
              /\ it[k].commit_sha = commit_stack[n - k + 1]
              /\ Unwrap(it[k].file_blame).commit_sha = commit_stack[n - k + 1]
              /\ it[k].file_path = file_path
              /\ {it[k].requests[j][2] : j \in BlameRequests(it[k])} = {commit_stack[n - k + 1]}
        /\ n > 0 => it[n].commit_sha = HeadRef

\* C10 witness: previous_commit has popped the newer of two pushed refs.
C10_Witness ==
    /\ last_op = "previous_commit"
    /\ Dispatching
    /\ commit_stack = <<HeadRef>>
    /\ commit_sha = "c2"

\* The shas an operation asked the gateway's commit summary for, in order.
IsShow(r) == r[1] = "show"
ShowRequests(reqs) == [k \in 1..Len(SelectSeq(reqs, IsShow)) |-> SelectSeq(reqs, IsShow)[k][2]]
ShownShas(reqs) == {ShowRequests(reqs)[k] : k \in 1..Len(ShowRequests(reqs))}
ShowCount(reqs, sha) ==
    Cardinality({k \in 1..Len(ShowRequests(reqs)) : ShowRequests(reqs)[k] = sha})
LineShas(a) == {BlameLines(a)[k].commit_sha : k \in 1..Len(BlameLines(a))}

\* C11: the commit summary is requested at most once per sha in a session.
\* The operation that produced this state requested no sha twice and every
\* sha it requested is now cached; a rebuild from this state requests no sha
\* twice, requests no sha that is already cached, and requests each sha of
\* the new snapshot's lines that was not cached exactly once, however many
\* lines share it.
C11_ShowOncePerSha ==
    /\ ~panicked =>
          /\ \A sha \in ShownShas(requests) : ShowCount(requests, sha) = 1
          /\ ShownShas(requests) \subseteq DOMAIN commit_cache
    /\ (last_op = "new" /\ HasSnapshot) =>
          \A sha \in LineShas(Self) : ShowCount(requests, sha) = 1
    /\ Dispatching =>
          \A post \in {next_commit(Self, git, overflow_checks),
                       previous_commit(Self, git, overflow_checks)} :
              /\ \A sha \in ShownShas(post.requests) : ShowCount(post.requests, sha) = 1
              /\ ShownShas(post.requests) \cap DOMAIN commit_cache = {}
              /\ (RebuildStarted(post) /\ ~post.panicked /\ post.running) =>
                    /\ \A sha \in LineShas(post) \ DOMAIN commit_cache :
                          ShowCount(post.requests, sha) = 1
                    /\ DOMAIN post.commit_cache = DOMAIN commit_cache \cup ShownShas(post.requests)

\* C11 witness: next_commit rebuilt at the parent, whose snapshot has two
\* lines of one commit; that commit was requested once and the commit cached
\* by the first build was not requested again.
C11_Witness ==
    /\ last_op = "next_commit"
    /\ Dispatching
    /\ RebuildStarted([requests |-> requests])
    /\ HasSnapshot
    /\ NumLines = 2
    /\ LineShas(Self) = {"c2"}
    /\ ShowRequests(requests) = <<"c2">>
    /\ "c3" \in DOMAIN commit_cache

\* The ref next_commit would rebuild at from this state, if any: the parent of
\* the selected line's commit, once the existence probe has passed.
DrillDownRef ==
    IF SelectedLineKnown /\ IsSome(SelectedParent)
    THEN IF CatFileExists(git, Unwrap(SelectedParent)) THEN SelectedParent ELSE None
    ELSE None
\* The ref previous_commit would rebuild at from this state, if any.
BackRef ==
    IF commit_stack # <<>> THEN Some(commit_stack[Len(commit_stack)]) ELSE None

\* What is left of a build that did not produce a snapshot, started from `pre`.
FailedAndUntouched(pre, post) ==
    /\ ~post.panicked
    /\ IsSome(post.load_err)
    /\ ~post.running
    /\ post.file_blame = pre.file_blame
    /\ post.commit_sha = pre.commit_sha
    /\ post.selected = pre.selected

\* C12: a build that does not produce a snapshot (the initial one, or a
\* rebuild by next_commit or previous_commit) leaves the App with the error
\* recorded and running = FALSE, and with the snapshot, the current ref and the
\* selection it had before.
C12_BuildFailureIsTerminal ==
    /\ (last_op = "new" /\ ~HasSnapshot) =>
          /\ ~panicked
          /\ IsSome(load_err)
          /\ ~running
          /\ ~IsSome(selected)
          /\ commit_sha = HeadRef
    /\ (Dispatching /\ IsSome(DrillDownRef)) =>
          (parse(git, file_path, Unwrap(DrillDownRef), commit_cache).outcome # "ok" =>
              FailedAndUntouched(Self, next_commit(Self, git, overflow_checks)))
    /\ (Dispatching /\ IsSome(BackRef)) =>
          (parse(git, file_path, Unwrap(BackRef), commit_cache).outcome # "ok" =>
              FailedAndUntouched(Self, previous_commit(Self, git, overflow_checks)))

\* C13: a build for a path that is not on disk returns NotExist, before any
\* gateway request; App::new on such a path records that error.
C13_MissingPathIsNotExist ==
    git.path_kind = "missing" =>
        LET r == parse(git, FilePath, HeadRef, <<>>) IN
        /\ r.outcome = "err"
        /\ r.err = "NotExist"
        /\ r.requests = <<>>
        /\ last_op = "new" => (~panicked /\ load_err = Some("NotExist"))

\* C14: a build for a regular file whose directory is in no work tree returns
\* NotGit, without reaching the existence probe; App::new on such a file
\* records that error.
C14_OutsideWorkTreeIsNotGit ==
    git.path_kind = "outside" =>
        LET r == parse(git, FilePath, HeadRef, <<>>) IN
        /\ r.outcome = "err"
        /\ r.err = "NotGit"
        /\ \A k \in 1..Len(r.requests) : r.requests[k][1] # "cat-file -e"
        /\ last_op = "new" => (~panicked /\ load_err = Some("NotGit"))

\* The blame output for the file at commit c has a line that is not of the
\* recognised shape (and the build gets as far as reading it).
HasGarbledLine(c) ==
    /\ git.path_kind = "file"
    /\ git.syntax # "unknown"
    /\ git.blame[c].exists
    /\ git.blame[c].status_ok
    /\ \E k \in 1..Len(git.blame[c].lines) : ~git.blame[c].lines[k].matches

\* C15: a build whose blame output has a line of unrecognised shape returns
\* the Unknown error and no snapshot.
C15_GarbledLineIsUnknown ==
    \A c \in Commits :
        HasGarbledLine(c) =>
            LET r == parse(git, FilePath, c, commit_cache) IN
            /\ r.outcome = "err"
            /\ r.err = "Unknown"
            /\ r.file_blame = None

\* C16: when the initial build returns an error, the event loop is not
\* entered, the program prints the error's display text, and it exits with a
\* non-zero status.
C16_InitialFailureExitsNonZero ==
    (last_op = "new" /\ ~panicked /\ IsSome(load_err)) =>
        /\ ~LoopEntered(Self)
        /\ main_exit(Self).stdout = <<"Error: ", Display(Unwrap(load_err))>>
        /\ main_exit(Self).status # 0

\* NoSnapshot: App::new has returned without a snapshot and nothing is selected.
NoSnapshot == ~HasSnapshot /\ ~IsSome(selected) /\ ~panicked

\* C17: in NoSnapshot each of the six navigation operations leaves the App as
\* it is (selection still undefined) and does not fail.
C17_NoSnapshotNoOps ==
    NoSnapshot =>
        \A post \in {next_line(Self, overflow_checks),
                     previous_line(Self, overflow_checks),
                     next_block(Self, overflow_checks),
                     previous_block(Self),
                     next_commit(Self, git, overflow_checks),
                     previous_commit(Self, git, overflow_checks)} :
            /\ ~post.panicked
            /\ post.selected = None
            /\ post = Self

\* The existence probes among an operation's requests.
ProbeRequests(reqs) == {k \in 1..Len(reqs) : reqs[k][1] = "cat-file -e"}

\* C18: a rebuild started by next_commit or previous_commit never fails with
\* MissingAtCommit: no state produced by either records that error, and
\* neither produces it from any state the loop dispatches in.
C18_RebuildNeverMissingAtCommit ==
    /\ last_op \in {"next_commit", "previous_commit"} =>
          load_err # Some("MissingAtCommit")
    /\ Dispatching =>
          \A post \in {next_commit(Self, git, overflow_checks),
                       previous_commit(Self, git, overflow_checks)} :
              post.load_err # Some("MissingAtCommit")

\* C18 witness: next_commit probed the parent, and the build it then started
\* probed the same ref again and went on to request the blame.
C18_Witness ==
    /\ last_op = "next_commit"
    /\ ~panicked
    /\ RebuildStarted([requests |-> requests])
    /\ Cardinality(ProbeRequests(requests)) = 2
    /\ \A k \in ProbeRequests(requests) : requests[k][2] = RebuildRef([requests |-> requests])
    /\ \A k \in ProbeRequests(requests) : k < SetMin(BlameRequests([requests |-> requests]))

\* All the operations a key can run, applied to the current App.
AfterAnyOperation ==
    {quit(Self),
     next_line(Self, overflow_checks),
     previous_line(Self, overflow_checks),
     next_block(Self, overflow_checks),
     previous_block(Self),
     next_commit(Self, git, overflow_checks),
     previous_commit(Self, git, overflow_checks)}

\* C19: the commit_sha of every line of the installed snapshot is a key of
\* the commit cache, under which the commit of that sha is stored; it is
\* still a key after any further operation, as is every line sha of the
\* snapshot that operation leaves installed.
C19_LineShasResolveInCache ==
    HasSnapshot =>
        /\ LineShas(Self) \subseteq DOMAIN commit_cache
        /\ \A sha \in LineShas(Self) : commit_cache[sha].sha = sha
        /\ Dispatching =>
              \A post \in AfterAnyOperation :
                  ~post.panicked =>
                      /\ LineShas(Self) \subseteq DOMAIN post.commit_cache
                      /\ LineShas(post) \subseteq DOMAIN post.commit_cache

\* C19 witness: next_commit installed a snapshot with a line of the root
\* commit (printed with the boundary marker), and the cache also holds a
\* commit that only an earlier snapshot refers to.
C19_Witness ==
    /\ last_op = "next_commit"
    /\ Dispatching
    /\ RebuildStarted([requests |-> requests])
    /\ HasSnapshot
    /\ "c1" \in LineShas(Self)
    /\ "c3" \in DOMAIN commit_cache
    /\ "c3" \notin LineShas(Self)

\* C20: no operation removes a key of the commit cache or changes the Commit
\* stored under a key.
C20_CacheGrowsMonotonically ==
    Dispatching =>
        \A post \in AfterAnyOperation :
            \A sha \in DOMAIN commit_cache :
                /\ sha \in DOMAIN post.commit_cache
                /\ post.commit_cache[sha] = commit_cache[sha]

\* C20 witness: a rebuild by next_commit added a commit to the cache, which
\* still holds a commit fetched by an earlier build; previous_commit from
\* here rebuilds at the first ref with nothing left to fetch.
C20_Witness ==
    /\ last_op = "next_commit"
    /\ Dispatching
    /\ ShownShas(requests) # {}
    /\ DOMAIN commit_cache \ ShownShas(requests) # {}
    /\ ShownShas(previous_commit(Self, git, overflow_checks).requests) = {}
    /\ RebuildStarted(previous_commit(Self, git, overflow_checks))

\* The blame output the installed snapshot was parsed from, and the sha a
\* printed commit token stands for.
ViewedOutput == git.blame[Unwrap(ResolveRef(commit_sha))].lines
TokenSha(token) == token[Len(token)]
IsMarked(token) == Head(token) = "^"

\* C21: a line printed with the boundary marker and a line printed without
\* it, for the same sha, get the same commit_sha and the same cache key: the
\* lines carry the bare sha, the cache has one entry per sha and none under a
\* marked key, the first build fetched each sha once, and two adjacent lines
\* of the two forms are in one block (next_block from the first does not stop
\* at the second).
C21_BoundaryMarkerStripped ==
    (HasSnapshot /\ ~panicked) =>
        /\ NumLines = Len(ViewedOutput)
        /\ \A k \in 1..NumLines :
              BlameLines(Self)[k].commit_sha = TokenSha(ViewedOutput[k].commit)
        /\ DOMAIN commit_cache \subseteq Commits
        /\ \A sha \in LineShas(Self) : commit_cache[sha].sha = sha
        /\ last_op = "new" => \A sha \in LineShas(Self) : ShowCount(requests, sha) = 1
        /\ \A k \in 1..(NumLines - 1) :
              (/\ TokenSha(ViewedOutput[k].commit) = TokenSha(ViewedOutput[k + 1].commit)
               /\ IsMarked(ViewedOutput[k].commit) # IsMarked(ViewedOutput[k + 1].commit)) =>
                  /\ k \notin BlockStarts
                  /\ next_block(Select(Self, k - 1), overflow_checks).selected # Some(k)

\* C21 witness: the first build parsed "^c1", "c1", "c3": one fetch and one
\* cache entry for c1, and next_block from line 0 has moved to the line of c3.
C21_Witness ==
    /\ last_op = "next_block"
    /\ Dispatching
    /\ commit_sha = HeadRef
    /\ Len(ViewedOutput) = 3
    /\ ViewedOutput[1].commit = <<"^", "c1">>
    /\ ViewedOutput[2].commit = <<"c1">>
    /\ ViewedOutput[3].commit = <<"c3">>
    /\ DOMAIN commit_cache = {"c1", "c3"}
    /\ selected = Some(2)

Min(a, b) == IF a <= b THEN a ELSE b

\* C22: after a next_commit from selection i that installs the parent's
\* snapshot, followed by previous_commit, the selected index is
\* min(i, len(parent snapshot) - 1); it is i again exactly when i was within
\* the parent snapshot.
C22_SelectionCarriedByIndex ==
    (Dispatching /\ HasSnapshot /\ IsSome(selected)) =>
        LET down == next_commit(Self, git, overflow_checks) IN
        (/\ ~down.panicked
         /\ down.running
         /\ Len(down.commit_stack) = Len(commit_stack) + 1) =>
            LET back == previous_commit(down, git, overflow_checks)
                parent_len == Len(BlameLines(down))
            IN
            /\ ~back.panicked
            /\ down.selected = Some(Min(SelectedIndex, parent_len - 1))
            /\ back.selected = Some(Min(SelectedIndex, parent_len - 1))
            /\ (back.selected = selected) <=> (SelectedIndex < parent_len)

\* C23: while the process lives and running is TRUE, a snapshot is installed
\* and a selection is defined; and from a state with running = FALSE no
\* operation returns with running = TRUE.
C23_RunningImpliesSnapshot ==
    ~panicked =>
        /\ running => (HasSnapshot /\ IsSome(selected))
        /\ ~running => \A post \in AfterAnyOperation : ~post.running

\* C23 witness: a rebuild by next_commit failed during the session: running
\* is FALSE, the error is recorded and the earlier snapshot is still there.
C23_Witness ==
    /\ last_op = "next_commit"
    /\ ~panicked
    /\ ~running
    /\ IsSome(load_err)
    /\ HasSnapshot
    /\ IsSome(selected)

\* The four moves within a snapshot, applied to the current App.
AfterAnyMove ==
    {next_line(Self, overflow_checks),
     previous_line(Self, overflow_checks),
     next_block(Self, overflow_checks),
     previous_block(Self)}

\* C24: next_line, previous_line, next_block and previous_block write nothing
\* but the selected index: snapshot, ref, filepath, stack, cache, error and
\* running flag are as before, and no gateway request is issued.
C24_MovesChangeOnlySelection ==
    /\ last_op \in {"next_line", "previous_line", "next_block", "previous_block"} =>
          requests = <<>>
    /\ Dispatching =>
          \A post \in AfterAnyMove :
              /\ post.requests = <<>>
              /\ post.file_blame = file_blame
              /\ post.commit_sha = commit_sha
              /\ post.file_path = file_path
              /\ post.commit_stack = commit_stack
              /\ post.commit_cache = commit_cache
              /\ post.load_err = load_err
              /\ post.running = running

\* C24 witness: previous_block moved the selection to the top of a snapshot
\* reached by drill-down; the stack still holds the pushed ref.
C24_Witness ==
    /\ last_op = "previous_block"
    /\ Dispatching
    /\ commit_stack = <<HeadRef>>
    /\ NumLines = 2
    /\ selected = Some(0)
    /\ requests = <<>>
    /\ load_err = None

\* The number of commits on the ancestor chain of a ref, the ref's own commit
\* included, and the number of strict ancestors of the ref the session starts at.
Rank(ref) == Cardinality(Ancestors(Unwrap(ResolveRef(ref))))
MaxDepth == Rank(HeadRef) - 1

\* next_commit applied k times in a row from the current App.
RECURSIVE DrillDown(_)
DrillDown(k) ==
    IF k = 0 THEN Self
    ELSE next_commit([DrillDown(k - 1) EXCEPT !.requests = <<>>], git, overflow_checks)

\* C25: drill-down terminates.  The stack is never deeper than the number of
\* strict ancestors of the initial ref; while the session runs, the refs on
\* the stack and the current ref descend strictly along the ancestor chain;
\* a next_commit that installs a snapshot moves to a strict ancestor of the
\* current ref; and after MaxDepth calls in a row a further next_commit
\* changes nothing (or the session has already ended).
C25_DrillDownTerminates ==
    /\ Len(commit_stack) <= MaxDepth
    /\ Dispatching =>
          /\ \A j \in 1..Len(commit_stack) :
                Rank(commit_stack[j]) >
                    Rank(IF j < Len(commit_stack) THEN commit_stack[j + 1] ELSE commit_sha)
          /\ LET post == next_commit(Self, git, overflow_checks) IN
             (~post.panicked /\ post.running /\ RebuildStarted(post)) =>
                 /\ Rank(post.commit_sha) < Rank(commit_sha)
                 /\ Len(post.commit_stack) = Len(commit_stack) + 1
          /\ LET last == [DrillDown(MaxDepth) EXCEPT !.requests = <<>>] IN
             \/ last.panicked
             \/ ~last.running
             \/ [next_commit(last, git, overflow_checks) EXCEPT !.requests = <<>>] = last

\* C25 witness: two drill-downs have reached the root commit with both refs
\* on the stack, and next_commit from here changes nothing.
C25_Witness ==
    /\ last_op = "next_commit"
    /\ Dispatching
    /\ commit_stack = <<HeadRef, "c2">>
    /\ commit_sha = "c1"
    /\ Len(commit_stack) = MaxDepth
    /\ [next_commit(Self, git, overflow_checks) EXCEPT !.requests = <<>>] = Self

====
